---- MODULE Spec2Model ----
(***************************************************************************)
(* Model of image_preprocess/scripts/preprocess_node.py: the auto-tuning   *)
(* controller of PreprocessNode (EMA smoothing of brightness statistics,   *)
(* the saturation / brightness / contrast policy, the clamped commit and   *)
(* the frame-count + wall-clock rate limiting).                            *)
(*                                                                         *)
(* Numbers.  The program computes in floating point; the model computes in *)
(* fixed point:                                                            *)
(*   gamma, clahe_clip, their steps and bounds : units of 1e-7  (G)        *)
(*   mean, std and their thresholds            : units of 1e-4  (Level)    *)
(*   sat_ratio, dark_ratio and thresholds      : units of 1e-6  (Pct)      *)
(*   time.time(), min_update_interval          : units of 0.01 s (Sec100)  *)
(*   ema_alpha                                 : hundredths                *)
(* Where the last binary places of a double decide a test of the program, *)
(* the model follows the binary arithmetic: the subtraction of the clock   *)
(* readings (time_gate), the difference against 1e-6 (exceeds) and the     *)
(* sums that make clahe_clip, which is tested against 2.3 + 0.2 and        *)
(* 2.3 - 0.2 (clahe_off, add).  The smoothed statistics are kept rounded   *)
(* down to their unit, together with whether anything has been dropped or  *)
(* rounded (ema_plain); where what has been dropped decides a test against *)
(* a threshold, every outcome of the test is followed (readings).          *)
(*                                                                         *)
(* A frame is represented by the statistics _compute_stats measures on it  *)
(* (the pixel transforms are opaque library calls), or is a message that   *)
(* cv_bridge refuses to convert.                                           *)
(***************************************************************************)
EXTENDS Integers, Sequences, FiniteSets, TLC

VARIABLES
    cfg,            \* the rospy parameters read by __init__ (never written afterwards)
    frame,          \* self._frame
    last_update_t,  \* self._last_update_t
    ema,            \* self._ema, each field rounded down to its unit
    ema_plain,      \* per field of self._ema: it is the double nearest to the value in ema
    gamma,          \* self.gamma
    clahe_clip,     \* self.clahe_clip, to the nearest 1e-7
    clahe_off,      \* self.clahe_clip minus the double nearest to clahe_clip * 1e-7, in halves of the last place of that double
    clock,          \* the latest reading of time.time()
    raw,            \* s, the statistics of the last converted frame
    tune,           \* locals of the last cb's _auto_tune: whether it passed both gates, and its gamma / clahe
    out,            \* what the last cb published: nothing, or a frame transformed with (gamma, clahe)
    seen,           \* history: the values self.clahe_clip held before the current one (empty: it is still the parameter as read)
    threads         \* per receive thread: where its cb stands, its locals, the callbacks it has finished

vars == <<cfg, frame, last_update_t, ema, ema_plain, gamma, clahe_clip, clahe_off, clock, raw, tune, out, seen, threads>>

----------------------------------------------------------------------------
(* Units and arithmetic helpers *)

G(hundredths) == hundredths * 100000
Level(v) == v * 10000
Pct(p) == p * 10000
Sec100(cs) == cs

Min(a, b) == IF a < b THEN a ELSE b
Max(a, b) == IF a > b THEN a ELSE b
Abs(a) == IF a < 0 THEN 0 - a ELSE a

\* np.clip(x, lo, hi) = minimum(maximum(x, lo), hi)
clip(x, lo, hi) == Min(Max(x, lo), hi)

----------------------------------------------------------------------------
(* Bounds of the exploration *)

\* every run is followed for this many openings of the frame-count gate
MaxTicks == 3
\* time.time() at the first callback, in 0.01 s (any value far above min_update_interval)
StartTime == 1000
\* the exploration follows the clock for this many 0.01 s after StartTime
Horizon == 60
\* frames fed in Scenario A
FramesA == 100
\* frames fed in Scenario B
FramesB == 64
\* frames fed to the relaxation runs
FramesK == 30
\* callbacks started in the runs with two receive threads
MaxCalls == 3
\* messages delivered while __init__ is between lines 85 and 87
MaxEarly == 1
\* the scenarios follow the clock for this many 0.01 s after StartTime
HorizonA == 300
HorizonB == 200

----------------------------------------------------------------------------
(* Program constants *)

\* 1e-6, the commit threshold, in units of 1e-7
Eps == 10
\* the relaxation target 2.3 and its +-0.2 band
target == G(230)
band == G(20)

BrightnessStats(m, sd, sat, dark) ==
    [mean |-> m, std |-> sd, sat_ratio |-> sat, dark_ratio |-> dark]

ZeroStats == BrightnessStats(0, 0, 0, 0)

\* the defaults of rospy.get_param in __init__
Defaults ==
    [gamma                |-> G(110),
     clahe_clip           |-> G(250),
     auto_tune_enable     |-> FALSE,
     dark_mean_thr        |-> Level(90),
     bright_mean_thr      |-> Level(170),
     low_contrast_std_thr |-> Level(35),
     sat_ratio_thr        |-> Pct(12),
     dark_ratio_thr       |-> Pct(12),
     gamma_step           |-> G(5),
     gamma_step_saturated |-> G(8),
     clahe_step           |-> G(20),
     gamma_min            |-> G(70),
     gamma_max            |-> G(160),
     clahe_min            |-> G(120),
     clahe_max            |-> G(380),
     update_every_n       |-> 8,
     min_update_interval  |-> Sec100(25),
     ema_alpha            |-> 15]

\* the defaults with ~auto_tune_enable set
Tuned == [Defaults EXCEPT !.auto_tune_enable = TRUE]

----------------------------------------------------------------------------
(* Pure parts of the program *)

\* _compute_stats: the statistics measured on a converted frame
compute_stats(bgr) == BrightnessStats(bgr.mean, bgr.std, bgr.sat_ratio, bgr.dark_ratio)

\* one field of _ema_update: (1 - a) * old + a * new, rounded down to the unit
\* of the field.  The program keeps the fraction that is dropped here; each
\* update drops less than a unit and keeps 1 - a of what was dropped before,
\* so for 0 < a < 1 the program's value x and the result m satisfy
\* m <= x < m + 1/a, up to the rounding of the doubles
ema_field(a, old, new) == ((100 - a) * old + a * new) \div 100

ema_update(c, e, s) ==
    [mean       |-> ema_field(c.ema_alpha, e.mean, s.mean),
     std        |-> ema_field(c.ema_alpha, e.std, s.std),
     sat_ratio  |-> ema_field(c.ema_alpha, e.sat_ratio, s.sat_ratio),
     dark_ratio |-> ema_field(c.ema_alpha, e.dark_ratio, s.dark_ratio)]

\* v units of 10^-k are a whole number of 2^-k: the double is v units exactly
\* (five is 5^k)
dyadic(v, five) == v % five = 0

\* the result of ema_field is the double that the program holds: the double
\* nearest to that many units.  With a = 1 it is new as measured, and with
\* a = 0 it is old.  Otherwise a and 1 - a are doubles exactly (a is a
\* multiple of 0.25), old and new are doubles exactly, so that the products
\* and the sum are not rounded, and nothing is dropped
plain_field(a, p, old, new, five) ==
    IF a = 100 THEN TRUE
    ELSE IF a = 0 THEN p
    ELSE /\ p
         /\ a % 25 = 0
         /\ dyadic(old, five)
         /\ dyadic(new, five)
         /\ ((100 - a) * old + a * new) % 100 = 0

\* 5^4 for the fields in units of 1e-4, 5^6 for those in units of 1e-6
Fives ==
    [mean |-> 625, std |-> 625, sat_ratio |-> 15625, dark_ratio |-> 15625]

plain_update(c, p, e, s) ==
    [mean       |-> plain_field(c.ema_alpha, p.mean, e.mean, s.mean, Fives.mean),
     std        |-> plain_field(c.ema_alpha, p.std, e.std, s.std, Fives.std),
     sat_ratio  |-> plain_field(c.ema_alpha, p.sat_ratio, e.sat_ratio, s.sat_ratio,
                                Fives.sat_ratio),
     dark_ratio |-> plain_field(c.ema_alpha, p.dark_ratio, e.dark_ratio, s.dark_ratio,
                                Fives.dark_ratio)]

\* BrightnessStats(): four doubles 0.0
AllPlain == [mean |-> TRUE, std |-> TRUE, sat_ratio |-> TRUE, dark_ratio |-> TRUE]

\* mutant: the counter is tested as it was before this frame's increment
frame_gate_stale(c, f) == ((f - 1) % c.update_every_n) = 0

\* gate (a): not ((self._frame % self.update_every_n) != 0)
frame_gate(c, f) == (f % c.update_every_n) = 0

\* mutant: the wall-clock test is missing
time_gate_none(c, last, now) == TRUE

\* the binary exponent of t / 100: 2^Lg(t) <= t / 100 < 2^(Lg(t) + 1), for t > 0
RECURSIVE LgUp(_, _)
LgUp(t, p) == IF t < 2 * p THEN 0 ELSE 1 + LgUp(t, 2 * p)

RECURSIVE LgDown(_)
LgDown(t) == IF t >= 100 THEN 0 ELSE LgDown(2 * t) - 1

Lg(t) == IF t >= 100 THEN LgUp(t, 100) ELSE LgDown(t)

RECURSIVE Pow2(_)
Pow2(n) == IF n = 0 THEN 1 ELSE 2 * Pow2(n - 1)

\* 2^n modulo m, for m = 100 and m = 200.  2^20 is 1 modulo 25, so 2^n and
\* 2^(n - 20) agree modulo 100 and modulo 200 when both are multiples of 8
RECURSIVE Pow2Mod(_, _)
Pow2Mod(n, m) ==
    IF n = 0 THEN 1
    ELSE IF n >= 23 THEN Pow2Mod(n - 20, m)
    ELSE (2 * Pow2Mod(n - 1, m)) % m

\* t / 100 in units of its last binary place (a double has 53 significant
\* bits), modulo m / 100: the part of t * 2^(52 - Lg(t)) that 100 does not divide
Residue(t, m) == (t * Pow2Mod(52 - Lg(t), m)) % m

\* rounding to the nearest whole number of last places: what is added to a
\* value that lies r hundredths above one.  r is a multiple of 4, so never
\* 50: no tie
Nearest(r) == IF r < 50 THEN 0 - r ELSE 100 - r

\* the double nearest to t / 100, minus t / 100, in hundredths of its last place
Dev(t) == Nearest(Residue(t, 100))

\* the last bit of the double nearest to t / 100
Odd(t) ==
    (((Residue(t, 200) - Residue(t, 100)) \div 100)
        + (IF Residue(t, 100) < 50 THEN 0 ELSE 1)) % 2 = 1

\* t / 100 is a power of two: the doubles just below it are twice as dense
IsPow2(t) == IF Lg(t) >= 0 THEN t = 100 * Pow2(Lg(t)) ELSE t * Pow2(0 - Lg(t)) = 100

\* now - last < interval in binary floating point, for readings now, last > 0
\* and an interval > 0 (in 0.01 s) with now - last = interval in exact
\* arithmetic: the difference of the doubles nearest to now and last is
\* rounded to a double, and that double lies below the double nearest to the
\* interval.  X is the exact difference and M the midpoint between the double
\* of the interval and the double before it, both minus the interval, in
\* hundredths of the finest last place of the three, 2^(lo - 52); on the
\* midpoint the difference is rounded to the double whose last bit is 0
short_of(X, M, odd) == X < M \/ (X = M /\ odd)

falls_short_at(interval, last, now, lo) ==
    short_of(Dev(now) * Pow2(Lg(now) - lo) - Dev(last) * Pow2(Lg(last) - lo),
             (Dev(interval) - (IF IsPow2(interval) THEN 25 ELSE 50)) * Pow2(Lg(interval) - lo),
             Odd(interval))

\* When the readings have the same exponent and the interval is a multiple of
\* 0.25 s, the interval is a whole number of their last places: the two
\* readings are rounded by the same amount, X = 0, and the interval is a
\* double, M < 0
falls_short(interval, last, now) ==
    IF Lg(now) = Lg(last) /\ interval % 25 = 0
    THEN FALSE
    ELSE falls_short_at(interval, last, now, Min(Lg(now), Min(Lg(last), Lg(interval))))

\* (now - self._last_update_t) < self.min_update_interval.  The readings of
\* the clock and the interval are whole hundredths of a second, so the
\* operands differ from the interval by 0.01 s or more, or by nothing: then
\* the rounding of the three doubles decides (16.06 - 15.81 < 0.25 is true).
\* last = 0 is the 0.0 of __init__, which is exact
too_soon(c, last, now) ==
    \/ (now - last) < c.min_update_interval
    \/ /\ (now - last) = c.min_update_interval
       /\ c.min_update_interval > 0
       /\ last > 0
       /\ falls_short(c.min_update_interval, last, now)

\* gate (b): not ((now - self._last_update_t) < self.min_update_interval)
time_gate(c, last, now) == ~too_soon(c, last, now)

\* the thresholds that the locals of lines 118-121 are tested against
thresholds(c) ==
    [mean       |-> {c.dark_mean_thr, c.bright_mean_thr},
     std        |-> {c.low_contrast_std_thr},
     sat_ratio  |-> {c.sat_ratio_thr},
     dark_ratio |-> {c.dark_ratio_thr}]

\* the fixed-point value m of a smoothed statistic does not tell on which
\* side of thr the program's double lies: the double is not plain, so it
\* lies in [m, m + 1/a) give or take a last place, and thr lies in that range
unsure(a, p, m, thr) ==
    /\ ~p
    /\ \/ a < 0
       \/ a > 100
       \/ m <= thr /\ (thr - m) * a < 100

\* v lies where the program's double may lie with respect to every threshold
\* in T, the fixed-point value being m
stands_for(a, p, m, v, T) ==
    \A thr \in T :
        \/ unsure(a, p, m, thr)
        \/ (v < thr <=> m < thr) /\ (v > thr <=> m > thr)

\* one value below, on and above every threshold in T
around(T) == UNION {{thr - 1, thr, thr + 1} : thr \in T}

\* the values that a local read from a field of self._ema at lines 118-121
\* may have, as far as the comparisons with the thresholds T can tell: m
\* itself, unless the comparison with some threshold is unsure
read_field(a, p, m, T) ==
    IF \A thr \in T : ~unsure(a, p, m, thr)
    THEN {m}
    ELSE {v \in {m} \cup around(T) : stands_for(a, p, m, v, T)}

\* lines 118-121: the locals mean, std, sat, dark of _auto_tune, where
\* self._ema is e in fixed point
readings(c, p, e) ==
    {BrightnessStats(m, sd, st, dk) :
        m \in read_field(c.ema_alpha, p.mean, e.mean, thresholds(c).mean),
        sd \in read_field(c.ema_alpha, p.std, e.std, thresholds(c).std),
        st \in read_field(c.ema_alpha, p.sat_ratio, e.sat_ratio, thresholds(c).sat_ratio),
        dk \in read_field(c.ema_alpha, p.dark_ratio, e.dark_ratio, thresholds(c).dark_ratio)}

\* the saturation test
saturated(c, e) == e.sat_ratio > c.sat_ratio_thr

----------------------------------------------------------------------------
(* Binary floating point.  gamma and clahe are doubles that lie a few last
   places from whole numbers of 1e-7.  The tests on gamma (max and min
   against the bounds, the difference against 1e-6) come out as they do on
   the fixed-point values.  So do those on clahe, but for clahe > target + 0.2
   and clahe < target - 0.2, where target + 0.2 is the double 2.5 and
   target - 0.2 is 2.0999999999999996: 2.6 - 0.05 - 0.05 is
   2.5000000000000004, which is relaxed again, and 3.8 less thirteen times
   0.1 is 2.4999999999999987, which is not.  A clahe is therefore a pair
   [n, k]: the double nearest to n * 1e-7 plus k halves of the last place of
   that double (halves, since the doubles just below a power of two are twice
   as dense).  For n = 0 the last place is that of 1e-7 *)

\* 1.0 in units of 1e-7
One == G(100)

Sign(n) == IF n > 0 THEN 1 ELSE IF n < 0 THEN 0 - 1 ELSE 0

RECURSIVE ExpDown(_)
ExpDown(v) == IF v >= One THEN 0 ELSE ExpDown(2 * v) - 1

\* the binary exponent of v * 1e-7, for v > 0
ExpoPos(v) == IF v >= One THEN LgUp(v, One) ELSE ExpDown(v)

\* the binary exponent of |n| * 1e-7: 2^Expo(n) <= |n| * 1e-7 < 2^(Expo(n) + 1)
Expo(n) == IF n = 0 THEN ExpoPos(1) ELSE ExpoPos(Abs(n))

\* r * 2^k modulo m, for 0 <= r < m
RECURSIVE Shl(_, _, _)
Shl(r, k, m) ==
    IF k = 0 \/ r = 0 THEN r
    ELSE IF k >= 6 THEN Shl((64 * r) % m, k - 6, m)
    ELSE Shl((2 * r) % m, k - 1, m)

\* |n| * 1e-7 in units of its last binary place, |n| * 2^(52 - Expo(n)) / 1e7,
\* as far as it decides the rounding and the last bit: the numerator modulo 2e7
Mant2(n) == Shl(Abs(n) % (2 * One), 52 - Expo(n), 2 * One)

\* the fraction is a half or more (it is never a half: the numerator is a
\* multiple of 128 and 5000000 is not)
RoundsUp(r2) == (r2 % One) >= (One \div 2)

Near7(r2) == IF RoundsUp(r2) THEN One - (r2 % One) ELSE 0 - (r2 % One)

\* the double nearest to n * 1e-7, minus n * 1e-7, in 1e-7 of its last place
Dn(n) == Sign(n) * Near7(Mant2(n))

OddBit(r2) == ((r2 \div One) + (IF RoundsUp(r2) THEN 1 ELSE 0)) % 2

\* the last bit of the double nearest to n * 1e-7
Par(n) == OddBit(Mant2(n))

\* |n| * 1e-7 is a power of two
IsPow2E(n, L) == IF L >= 0 THEN Abs(n) = One * Pow2(L) ELSE Abs(n) * Pow2(0 - L) = One

double(n, k) == [n |-> n, k |-> k]

\* float(rospy.get_param(...)) of a parameter that is v * 1e-7, and a literal
\* of the source: the nearest double
float(v) == double(v, 0)

\* x > y and x < y.  Doubles that lie by different whole numbers of 1e-7 are
\* ordered as these are
gt(x, y) == x.n > y.n \/ (x.n = y.n /\ x.k > y.k)
lt(x, y) == gt(y, x)

\* max(a, b) and min(a, b) of Python: the first argument unless the second
\* is larger (smaller)
max(a, b) == IF gt(b, a) THEN b ELSE a
min(a, b) == IF lt(b, a) THEN b ELSE a

\* np.clip(x, lo, hi) = minimum(maximum(x, lo), hi)
np_clip(x, lo, hi) == min(max(x, lo), hi)

\* d * 2^s / 1e7 as <<whole part, remainder in 1e-7>>
RECURSIVE Scale(_, _, _)
Scale(q, r, s) ==
    IF s = 0 \/ (q = 0 /\ r = 0) THEN <<q, r>>
    ELSE Scale(2 * q + ((2 * r) \div One), (2 * r) % One, s - 1)

Units(d, s) == Scale(d \div One, d % One, s)

nearest_even(q, r2, d, odd) ==
    IF r2 < d THEN q
    ELSE IF r2 > d THEN q + 1
    ELSE IF (q + odd) % 2 = 0 THEN q ELSE q + 1

\* e / d rounded to the nearest whole number; a tie goes to the one that
\* makes the last bit 0, where odd is the last bit at 0
round_even(e, d, odd) == nearest_even(e \div d, 2 * (e % d), d, odd)

\* the exact sum of x and y minus the double nearest to c = x.n + y.n, in
\* units of 2^(lo - 53), the half last place of the finest of the three
\* exponents Lx, Ly, Lc.  The three doubles are whole numbers of this unit,
\* so the remainders cancel
sum_units(ux, uy, uc) == ux[1] + uy[1] - uc[1] + ((ux[2] + uy[2] - uc[2]) \div One)

add_excess(x, y, c, Lx, Ly, Lc, lo) ==
    sum_units(Units(Dn(x.n), Lx - lo + 1), Units(Dn(y.n), Ly - lo + 1), Units(Dn(c), Lc - lo + 1))
        + x.k * Pow2(Lx - lo) + y.k * Pow2(Ly - lo)

\* the exact sum rounded to a double: to a whole number of last places of c,
\* 2^(g - 1) units each; to half last places when the sum lies below
\* (in magnitude) a c that is a power of two.  sg is the sign of c
add_rounded(c, e, g, Lc, sg) ==
    IF c = 0 THEN double(0, e)
    ELSE IF IsPow2E(c, Lc) /\ sg * e < 0
         THEN double(c, sg * round_even(sg * e, Pow2(g - 1), 0))
         ELSE double(c, sg * 2 * round_even(sg * e, Pow2(g), Par(c)))

add_at(x, y, c, Lx, Ly, Lc, lo) ==
    add_rounded(c, add_excess(x, y, c, Lx, Ly, Lc, lo), Lc - lo + 1, Lc, Sign(c))

add_exp(x, y, c, Lx, Ly, Lc) == add_at(x, y, c, Lx, Ly, Lc, Min(Lx, Min(Ly, Lc)))

\* x + y and x - y in binary floating point, round to nearest, ties to even
add(x, y) == add_exp(x, y, x.n + y.n, Expo(x.n), Expo(y.n), Expo(x.n + y.n))

sub(x, y) == add(x, double(0 - y.n, 0 - y.k))

\* x * 0.5: exact
times_half(x) == double((x.n * 5) \div 10, x.k)

\* the sign of I - S / 2^t
cmp_scaled(I, S, t) ==
    IF t >= 0
    THEN IF I > S \div Pow2(t) THEN 1
         ELSE IF I = S \div Pow2(t) /\ S % Pow2(t) = 0 THEN 0 ELSE 0 - 1
    ELSE IF I > S * Pow2(0 - t) THEN 1
         ELSE IF I = S * Pow2(0 - t) THEN 0 ELSE 0 - 1

\* the product of the double nearest to S * 1e-7, S > 0, and the double
\* nearest to 0.3, which is 0.3 less a fifth of its last place, 2^-54:
\* S * 1e-7 * 0.3 + 0.3 * (error of S) - S * 1e-7 * 2^-54 / 5 - (error of S) * 2^-54 / 5.
\* In last places of P = 0.3 * S, less the error of P, the first three terms
\* are (A - S / 2^(Lp + 1)) / 1e8; hi and lo are the signs of that less and
\* plus a half; the fourth term, far below 1e-8, decides only on a half, by
\* its sign t3; odd is the last bit of the double nearest to P
times_0_3_k(hi, lo, t3, odd) ==
    IF hi > 0 \/ (hi = 0 /\ t3 > 0) THEN 1
    ELSE IF hi = 0 /\ t3 = 0 THEN odd
    ELSE IF lo < 0 \/ (lo = 0 /\ t3 < 0) THEN 0 - 1
    ELSE IF lo = 0 /\ t3 = 0 THEN 0 - odd
    ELSE 0

times_0_3_at(S, P, A, t) ==
    double(P, 2 * times_0_3_k(cmp_scaled(A - 5 * One, S, t), cmp_scaled(A + 5 * One, S, t),
                              0 - Sign(Dn(S)), Par(P)))

times_0_3_pos(S, P) ==
    times_0_3_at(S, P, 3 * Dn(S) * Pow2(Expo(S) - Expo(P)) - 10 * Dn(P), Expo(P) + 1)

\* float(v) * 0.3, for a v of which three tenths are a whole number of 1e-7
times_0_3(v) ==
    IF v = 0 THEN float(0)
    ELSE IF v > 0 THEN times_0_3_pos(v, (v * 3) \div 10)
    ELSE double((v * 3) \div 10, 0 - times_0_3_pos(0 - v, ((0 - v) * 3) \div 10).k)

\* target + 0.2 and target - 0.2 of lines 144 and 146
upper == add(float(target), float(band))
lower == sub(float(target), float(band))

above_band(x) == gt(x, upper)
below_band(x) == lt(x, lower)
in_band(x) == ~above_band(x) /\ ~below_band(x)

\* self.clahe_clip
self_clahe == double(clahe_clip, clahe_off)

----------------------------------------------------------------------------
(* The policy of _auto_tune.  g is the local gamma in units of 1e-7, x the
   local clahe as a double *)

with_gamma(g, x) == [gamma |-> g, clahe |-> x.n, off |-> x.k]

\* mutant: the saturation branch steps gamma by gamma_step
saturation_rule_plainstep(c, g, x) ==
    with_gamma(Max(c.gamma_min, g - c.gamma_step),
               max(float(c.clahe_min), sub(x, float(c.clahe_step))))

\* the saturation branch
saturation_rule(c, g, x) ==
    with_gamma(Max(c.gamma_min, g - c.gamma_step_saturated),
               max(float(c.clahe_min), sub(x, float(c.clahe_step))))

\* mutant: the mean thresholds are inclusive
brightness_rule_inclusive(c, e, g) ==
    IF e.mean <= c.dark_mean_thr \/ e.dark_ratio > c.dark_ratio_thr
    THEN Min(c.gamma_max, g + c.gamma_step)
    ELSE IF e.mean >= c.bright_mean_thr
         THEN Max(c.gamma_min, g - c.gamma_step)
         ELSE g

\* mutant: the bright test comes before the dark test
brightness_rule_bright_first(c, e, g) ==
    IF e.mean > c.bright_mean_thr
    THEN Max(c.gamma_min, g - c.gamma_step)
    ELSE IF e.mean < c.dark_mean_thr \/ e.dark_ratio > c.dark_ratio_thr
         THEN Min(c.gamma_max, g + c.gamma_step)
         ELSE g

\* dark / bright control
brightness_rule(c, e, g) ==
    IF e.mean < c.dark_mean_thr \/ e.dark_ratio > c.dark_ratio_thr
    THEN Min(c.gamma_max, g + c.gamma_step)
    ELSE IF e.mean > c.bright_mean_thr
         THEN Max(c.gamma_min, g - c.gamma_step)
         ELSE g

\* mutant: the ends of the dead-band relax too
relax_rule_closed(c, x) ==
    IF ~lt(x, upper)
    THEN max(float(c.clahe_min), sub(x, times_half(float(c.clahe_step))))
    ELSE IF ~gt(x, lower)
         THEN min(float(c.clahe_max), add(x, times_0_3(c.clahe_step)))
         ELSE x

\* the relaxation of CLAHE toward the nominal target
relax_rule(c, x) ==
    IF above_band(x)
    THEN max(float(c.clahe_min), sub(x, times_half(float(c.clahe_step))))
    ELSE IF below_band(x)
         THEN min(float(c.clahe_max), add(x, times_0_3(c.clahe_step)))
         ELSE x

\* mutant: std equal to the threshold counts as low contrast
contrast_rule_inclusive(c, e, x) ==
    IF e.std <= c.low_contrast_std_thr
    THEN min(float(c.clahe_max), add(x, float(c.clahe_step)))
    ELSE relax_rule(c, x)

\* contrast control
contrast_rule(c, e, x) ==
    IF e.std < c.low_contrast_std_thr
    THEN min(float(c.clahe_max), add(x, float(c.clahe_step)))
    ELSE relax_rule(c, x)

\* mutant: the brightness and contrast rules run after the saturation branch too
propose_fallthrough(c, e, g, x) ==
    LET s == IF saturated(c, e) THEN saturation_rule(c, g, x)
             ELSE with_gamma(g, x)
    IN  with_gamma(brightness_rule(c, e, s.gamma), contrast_rule(c, e, double(s.clahe, s.off)))

\* the values of the locals gamma and clahe when _auto_tune reaches "Apply"
propose(c, e, g, x) ==
    IF saturated(c, e)
    THEN saturation_rule(c, g, x)
    ELSE with_gamma(brightness_rule(c, e, g), contrast_rule(c, e, x))

\* abs(x - y) > 1e-6 in binary floating point, for operands whose difference
\* is d in exact arithmetic.  x is the rounded sum or difference of y and a
\* step, so a difference of exactly 1e-6 comes out an ulp above 1e-6 or not,
\* depending on how that sum was rounded: 2.5 + 1e-6 gives 1.000000000139778e-06
\* (above), 1.1 + 1e-6 gives 9.999999999177334e-07 (below).  up says the
\* rounding went above
exceeds(d, up) == d > Eps \/ (d = Eps /\ up)

\* the test of "Apply"
differs(p, g, cl, up) == exceeds(Abs(p.gamma - g), up) \/ exceeds(Abs(p.clahe - cl), up)

NoTune == [ran |-> FALSE, gamma |-> 0, clahe |-> 0]

\* mutant: every tick past the gates stores and resets the timer
apply_always(c, p, g, x, last, now, up) ==
    [gamma         |-> clip(p.gamma, c.gamma_min, c.gamma_max),
     clahe_clip    |-> clip(p.clahe, c.clahe_min, c.clahe_max),
     clahe_off     |-> np_clip(double(p.clahe, p.off), float(c.clahe_min), float(c.clahe_max)).k,
     last_update_t |-> now,
     tune          |-> [ran |-> TRUE, gamma |-> p.gamma, clahe |-> p.clahe]]

\* mutant: a commit stores only the component that changed
apply_changed_only(c, p, g, x, last, now, up) ==
    IF differs(p, g, x.n, up)
    THEN [gamma         |-> IF exceeds(Abs(p.gamma - g), up)
                            THEN clip(p.gamma, c.gamma_min, c.gamma_max) ELSE g,
          clahe_clip    |-> IF exceeds(Abs(p.clahe - x.n), up)
                            THEN clip(p.clahe, c.clahe_min, c.clahe_max) ELSE x.n,
          clahe_off     |-> IF exceeds(Abs(p.clahe - x.n), up)
                            THEN np_clip(double(p.clahe, p.off),
                                         float(c.clahe_min), float(c.clahe_max)).k
                            ELSE x.k,
          last_update_t |-> now,
          tune          |-> [ran |-> TRUE, gamma |-> p.gamma, clahe |-> p.clahe]]
    ELSE [gamma         |-> g,
          clahe_clip    |-> x.n,
          clahe_off     |-> x.k,
          last_update_t |-> last,
          tune          |-> [ran |-> TRUE, gamma |-> p.gamma, clahe |-> p.clahe]]

\* "Apply": the fields after the commit test.  g and x are self.gamma and
\* self.clahe_clip, p the locals
apply(c, p, g, x, last, now, up) ==
    IF differs(p, g, x.n, up)
    THEN [gamma         |-> clip(p.gamma, c.gamma_min, c.gamma_max),
          clahe_clip    |-> clip(p.clahe, c.clahe_min, c.clahe_max),
          clahe_off     |-> np_clip(double(p.clahe, p.off),
                                    float(c.clahe_min), float(c.clahe_max)).k,
          last_update_t |-> now,
          tune          |-> [ran |-> TRUE, gamma |-> p.gamma, clahe |-> p.clahe]]
    ELSE [gamma         |-> g,
          clahe_clip    |-> x.n,
          clahe_off     |-> x.k,
          last_update_t |-> last,
          tune          |-> [ran |-> TRUE, gamma |-> p.gamma, clahe |-> p.clahe]]

\* _auto_tune as a function of the fields it reads
auto_tune(c, f, e, g, x, last, now, up) ==
    IF ~frame_gate(c, f) \/ ~time_gate(c, last, now)
    THEN [gamma |-> g, clahe_clip |-> x.n, clahe_off |-> x.k,
          last_update_t |-> last, tune |-> NoTune]
    ELSE apply(c, propose(c, e, g, x), g, x, last, now, up)

NoOut == [emitted |-> FALSE, gamma |-> 0, clahe |-> 0]

\* self.pub.publish of the frame transformed by _apply_gamma and _apply_clahe
publish(g, cl) == [emitted |-> TRUE, gamma |-> g, clahe |-> cl]

\* the receive threads of the subscriber: rospy runs one per publisher
\* connected to the input topic, and each calls cb for the messages it receives
Threads == {1, 2}

\* a thread outside cb
Idle ==
    [pc |-> "idle", f |-> 0, s |-> ZeroStats, k |-> 0, acc |-> 0, plain |-> TRUE, now |-> 0,
     e |-> ZeroStats, g |-> 0, cl |-> 0, off |-> 0, done |-> 0]

----------------------------------------------------------------------------
(* Configurations and inputs explored *)

Configs ==
    { [Tuned EXCEPT !.update_every_n = 2, !.ema_alpha = 100],
      [Tuned EXCEPT !.update_every_n = 1, !.ema_alpha = 50, !.min_update_interval = 0],
      [Tuned EXCEPT !.ema_alpha = 100],
      [Tuned EXCEPT !.gamma = G(200), !.clahe_clip = G(450),
                    !.update_every_n = 2, !.ema_alpha = 100],
      [Tuned EXCEPT !.gamma_step = 5, !.clahe_step = 0,
                    !.update_every_n = 1, !.ema_alpha = 100],
      [Tuned EXCEPT !.clahe_clip = G(210), !.update_every_n = 2, !.ema_alpha = 100],
      [Defaults EXCEPT !.update_every_n = 2, !.ema_alpha = 100] }

\* statistics of the frames fed: white-out that is also dark and flat, a dark
\* scene, a bright scene, a scene sitting exactly on the thresholds, a flat scene
Samples ==
    { BrightnessStats(Level(60), Level(20), Pct(30), Pct(30)),
      BrightnessStats(Level(60), Level(50), Pct(0), Pct(2)),
      BrightnessStats(Level(200), Level(50), Pct(5), Pct(0)),
      BrightnessStats(Level(90), Level(35), Pct(12), Pct(12)),
      BrightnessStats(Level(170), Level(20), Pct(0), Pct(0)) }

Steps == {0, 10, 25}

----------------------------------------------------------------------------
(* State machine *)

\* __init__ with the parameters c, as it returns.  The subscriber is
\* registered at line 83, before self._frame, self._last_update_t and
\* self._ema exist (lines 85-87), so cb can run while __init__ has not
\* finished.  A message delivered before line 85 ends in an AttributeError
\* at line 180 and leaves no trace.  A message delivered between lines 85
\* and 87 is counted at line 180 and ends in an AttributeError at line 102,
\* before anything is smoothed, tuned or published: early is the number of
\* these
Construct(c, early) ==
    /\ cfg = c
    /\ gamma = c.gamma
    /\ clahe_clip = c.clahe_clip
    /\ clahe_off = 0
    /\ frame = early
    /\ last_update_t = 0
    /\ ema = ZeroStats
    /\ ema_plain = AllPlain
    /\ raw = ZeroStats
    /\ tune = NoTune
    /\ out = NoOut
    /\ seen = {}
    /\ threads = [i \in Threads |-> Idle]

Init ==
    /\ \E c \in Configs : \E early \in 0 .. MaxEarly : Construct(c, early)
    /\ clock = StartTime

\* mutant: a rejected message is smoothed in as an all-zero frame
cbInvalid_smooths(now) ==
    /\ frame' = frame + 1
    /\ clock' = now
    /\ tune' = NoTune
    /\ out' = NoOut
    /\ ema' = ema_update(cfg, ema, ZeroStats)
    /\ ema_plain' = plain_update(cfg, ema_plain, ema, ZeroStats)
    /\ UNCHANGED <<cfg, last_update_t, gamma, clahe_clip, clahe_off, raw, seen>>

\* cb on a message that yields no frame: the counter advances and the callback
\* ends before _ema_update.  imgmsg_to_cv2 raises and cb logs and returns; or
\* the converted frame is empty and cv2.cvtColor raises in _compute_stats,
\* which ends the callback the same way
cbInvalid(now) ==
    /\ frame' = frame + 1
    /\ clock' = now
    /\ tune' = NoTune
    /\ out' = NoOut
    /\ UNCHANGED <<cfg, last_update_t, ema, ema_plain, gamma, clahe_clip, clahe_off, raw, seen>>

\* the statistics s of the frame, the smoothed statistics e (p: which of them
\* are plain) and the fields r that _auto_tune leaves become the state, and
\* the frame is published transformed with the gamma and the clahe_clip of r
cb_result(s, now, e, p, r) ==
    /\ frame' = frame + 1
    /\ clock' = now
    /\ raw' = s
    /\ ema' = e
    /\ ema_plain' = p
    /\ gamma' = r.gamma
    /\ clahe_clip' = r.clahe_clip
    /\ clahe_off' = r.clahe_off
    /\ last_update_t' = r.last_update_t
    /\ tune' = r.tune
    /\ out' = publish(r.gamma, r.clahe_clip)
    /\ seen' = IF clahe_clip' # clahe_clip THEN seen \cup {clahe_clip} ELSE seen
    /\ UNCHANGED cfg

\* cb without a call of _auto_tune
untuned == [gamma |-> gamma, clahe_clip |-> clahe_clip, clahe_off |-> clahe_off,
            last_update_t |-> last_update_t, tune |-> NoTune]

\* mutant: _auto_tune runs before _ema_update and reads the statistics
\* smoothed up to the previous frame
cbValid_stale_stats(s, now) ==
    \E up \in BOOLEAN : \E o \in readings(cfg, ema_plain, ema) :
        cb_result(s, now, ema_update(cfg, ema, s), plain_update(cfg, ema_plain, ema, s),
                  IF cfg.auto_tune_enable
                  THEN auto_tune(cfg, frame + 1, o, gamma, self_clahe, last_update_t, now, up)
                  ELSE untuned)

\* lines 191-200 of cb, the statistics smoothed by line 189 being e
cb_tuned(s, now, e, p) ==
    \E up \in BOOLEAN : \E o \in readings(cfg, p, e) :
        cb_result(s, now, e, p,
                  IF cfg.auto_tune_enable
                  THEN auto_tune(cfg, frame + 1, o, gamma, self_clahe, last_update_t, now, up)
                  ELSE untuned)

\* mutant: _auto_tune runs whatever auto_tune_enable says
cbValid_always_tunes(s, now) ==
    \E up \in BOOLEAN :
        \E o \in readings(cfg, plain_update(cfg, ema_plain, ema, s), ema_update(cfg, ema, s)) :
            cb_result(s, now, ema_update(cfg, ema, s), plain_update(cfg, ema_plain, ema, s),
                      auto_tune(cfg, frame + 1, o, gamma, self_clahe, last_update_t, now, up))

\* cb on a message that converts to a frame with statistics s: self._frame
\* += 1, _compute_stats, _ema_update, _auto_tune if auto_tune_enable, the
\* transforms and publish
cbValid(s, now) ==
    cb_tuned(s, now, ema_update(cfg, ema, s), plain_update(cfg, ema_plain, ema, s))

More == frame < MaxTicks * cfg.update_every_n

Nows == {clock + d : d \in Steps} \cap (0 .. StartTime + Horizon)

RejectedFrame == \E now \in Nows : More /\ cbInvalid(now) /\ UNCHANGED threads

AcceptedFrame ==
    \E now \in Nows : \E bgr \in Samples :
        /\ More
        /\ cbValid(compute_stats(bgr), now)
        /\ UNCHANGED threads

Next == RejectedFrame \/ AcceptedFrame

Spec == Init /\ [][Next]_vars

----------------------------------------------------------------------------
(* Scenario A: a fresh controller with the defaults, where auto_tune_enable
   is false, or with the defaults and auto-tuning on; a constant dark scene *)

SceneA == BrightnessStats(Level(60), Level(50), Pct(0), Pct(2))

StepsA == {0, 5, 25}

InitA ==
    /\ \E c \in {Defaults, Tuned} : Construct(c, 0)
    /\ clock = StartTime

FrameA ==
    \E d \in StepsA :
        /\ frame < FramesA
        /\ clock + d <= StartTime + HorizonA
        /\ cbValid(compute_stats(SceneA), clock + d)
        /\ UNCHANGED threads

NextA == FrameA

SpecA == InitA /\ [][NextA]_vars

----------------------------------------------------------------------------
(* Scenario B: the defaults with auto-tuning on, a constant scene with
   sat_ratio = 0.30 *)

ScenesB ==
    { BrightnessStats(Level(60), Level(20), Pct(30), Pct(30)),
      BrightnessStats(Level(200), Level(50), Pct(30), Pct(0)) }

InitB == Construct(Tuned, 0) /\ clock = StartTime

FrameB ==
    \E d \in StepsA : \E bgr \in ScenesB :
        /\ frame < FramesB
        /\ frame = 0 \/ compute_stats(bgr) = raw
        /\ clock + d <= StartTime + HorizonB
        /\ cbValid(compute_stats(bgr), clock + d)
        /\ UNCHANGED threads

NextB == FrameB

SpecB == InitB /\ [][NextB]_vars

----------------------------------------------------------------------------
(* The policy and the commit over a wide range of parameters: every frame is
   a tick (update_every_n = 1, ema_alpha = 1), the starting values lie inside
   and outside the bounds, the steps are small, large and negative, the
   bounds are proper, degenerate and inverted *)

Direct == [Tuned EXCEPT !.update_every_n = 1, !.ema_alpha = 100]

ConfigsP ==
    { Direct,
      [Direct EXCEPT !.clahe_clip = G(300), !.min_update_interval = 0],
      [Direct EXCEPT !.gamma = G(200), !.clahe_clip = G(450), !.min_update_interval = 0],
      [Direct EXCEPT !.gamma = G(50), !.clahe_clip = G(100), !.min_update_interval = 0],
      [Direct EXCEPT !.gamma_step = 0 - G(5), !.gamma_step_saturated = 0 - G(8),
                     !.clahe_step = 0 - G(20), !.min_update_interval = 0],
      [Direct EXCEPT !.gamma_step = G(100), !.gamma_step_saturated = G(100),
                     !.clahe_step = G(500), !.min_update_interval = 0],
      [Direct EXCEPT !.gamma_min = G(110), !.gamma_max = G(110),
                     !.clahe_min = G(250), !.clahe_max = G(250)],
      [Direct EXCEPT !.gamma_min = G(160), !.gamma_max = G(70), !.min_update_interval = 0],
      [Direct EXCEPT !.ema_alpha = 0, !.min_update_interval = 0] }

\* the frames of Samples, and a bright scene with a large dark area
SamplesP == Samples \cup { BrightnessStats(Level(200), Level(50), Pct(5), Pct(30)) }

StepsP == {0, 25}

InitP ==
    /\ \E c \in ConfigsP : \E early \in 0 .. MaxEarly : Construct(c, early)
    /\ clock = StartTime

NowsP == {clock + d : d \in StepsP} \cap (0 .. StartTime + Horizon)

RejectedFrameP == \E now \in NowsP : More /\ cbInvalid(now) /\ UNCHANGED threads

AcceptedFrameP ==
    \E now \in NowsP : \E bgr \in SamplesP :
        /\ More
        /\ cbValid(compute_stats(bgr), now)
        /\ UNCHANGED threads

NextP == RejectedFrameP \/ AcceptedFrameP

SpecP == InitP /\ [][NextP]_vars

----------------------------------------------------------------------------
(* Start-up: the defaults with auto-tuning on, and from the first frame on a
   constant scene that needs no correction *)

ScenesS ==
    { BrightnessStats(Level(100), Level(40), Pct(0), Pct(0)),
      BrightnessStats(Level(125), Level(50), Pct(5), Pct(5)),
      BrightnessStats(Level(170), Level(35), Pct(12), Pct(12)) }

InitS == Construct(Tuned, 0) /\ clock = StartTime

FrameS ==
    \E now \in NowsP : \E bgr \in ScenesS :
        /\ More
        /\ frame = 0 \/ compute_stats(bgr) = raw
        /\ cbValid(compute_stats(bgr), now)
        /\ UNCHANGED threads

NextS == FrameS

SpecS == InitS /\ [][NextS]_vars

----------------------------------------------------------------------------
(* Relaxation: every frame is a tick, the scene is constant from the first
   frame on, not saturated and not flat; clahe_clip starts within its bounds,
   above, inside or below the dead-band, and clahe_step ranges from 0.2 to 5 *)

Calm == [Direct EXCEPT !.min_update_interval = 0]

ConfigsK ==
    { Calm,
      [Calm EXCEPT !.clahe_clip = G(255)],
      [Calm EXCEPT !.clahe_clip = G(380)],
      [Calm EXCEPT !.clahe_clip = G(120)],
      [Calm EXCEPT !.clahe_clip = G(380), !.clahe_step = G(80)],
      [Calm EXCEPT !.clahe_clip = G(120), !.clahe_step = G(80)],
      [Calm EXCEPT !.clahe_clip = G(300), !.clahe_min = G(260)],
      [Calm EXCEPT !.clahe_clip = G(150), !.clahe_max = G(200)],
      [Calm EXCEPT !.clahe_clip = G(300), !.clahe_step = G(200)],
      [Calm EXCEPT !.clahe_clip = G(270), !.clahe_step = G(500)] }

ScenesK ==
    { BrightnessStats(Level(125), Level(50), Pct(0), Pct(0)),
      BrightnessStats(Level(60), Level(50), Pct(0), Pct(2)),
      BrightnessStats(Level(90), Level(35), Pct(12), Pct(12)) }

InitK ==
    /\ \E c \in ConfigsK : Construct(c, 0)
    /\ clock = StartTime

FrameK ==
    \E now \in NowsP : \E bgr \in ScenesK :
        /\ frame < FramesK
        /\ frame = 0 \/ compute_stats(bgr) = raw
        /\ cbValid(compute_stats(bgr), now)
        /\ UNCHANGED threads

NextK == FrameK

SpecK == InitK /\ [][NextK]_vars

----------------------------------------------------------------------------
(* Two publishers on the input topic: cb runs in two receive threads with no
   lock, and the interpreter may switch threads between any two accesses to
   the fields of the node.  Each step below holds one access to a field that
   some thread writes (_frame, _ema.*, _last_update_t, gamma, clahe_clip),
   together with the computation on locals and on the parameters, which are
   never written, that follows it.  The scene is saturated throughout, so
   that callbacks that do not overlap lower gamma and clahe_clip together *)

SceneT == BrightnessStats(Level(60), Level(20), Pct(30), Pct(30))

\* the fields of self._ema, in the order _ema_update and _auto_tune go through them
EmaFields == <<"mean", "std", "sat_ratio", "dark_ratio">>

InitT == Construct(Direct, 0) /\ clock = StartTime

\* the end of a callback: the locals are gone
Return(i) == [Idle EXCEPT !.done = threads[i].done + 1]

\* line 180, the load of self._frame += 1
cbEnter(i) ==
    /\ threads[i].pc = "idle"
    /\ threads[1].done + threads[2].done
            + Cardinality({j \in Threads : threads[j].pc # "idle"}) < MaxCalls
    /\ threads' = [threads EXCEPT ![i].pc = "inc", ![i].f = frame]
    /\ UNCHANGED <<cfg, frame, last_update_t, ema, ema_plain, gamma, clahe_clip, clahe_off, clock, raw, tune, out, seen>>

\* line 180, the store of self._frame += 1; lines 181-188, the conversion and
\* _compute_stats, on locals
cbCount(i) ==
    /\ threads[i].pc = "inc"
    /\ frame' = threads[i].f + 1
    /\ raw' = compute_stats(SceneT)
    /\ threads' = [threads EXCEPT ![i].pc = "ema_load", ![i].f = 0,
                                  ![i].s = compute_stats(SceneT), ![i].k = 1]
    /\ UNCHANGED <<cfg, last_update_t, ema, ema_plain, gamma, clahe_clip, clahe_off, clock, tune, out, seen>>

\* lines 102-105, the read of self._ema.<field> on the right-hand side
cbEmaLoad(i) ==
    /\ threads[i].pc = "ema_load"
    /\ threads' = [threads EXCEPT ![i].pc = "ema_store",
                                  ![i].acc = ema[EmaFields[threads[i].k]],
                                  ![i].plain = ema_plain[EmaFields[threads[i].k]]]
    /\ UNCHANGED <<cfg, frame, last_update_t, ema, ema_plain, gamma, clahe_clip, clahe_off, clock, raw, tune, out, seen>>

\* lines 102-105, the store to self._ema.<field>; after the last one, line 191
cbEmaStore(i) ==
    LET k   == threads[i].k
        fld == EmaFields[k]
    IN  /\ threads[i].pc = "ema_store"
        /\ ema' = [ema EXCEPT ![fld] = ema_field(cfg.ema_alpha, threads[i].acc, threads[i].s[fld])]
        /\ ema_plain' = [ema_plain EXCEPT ![fld] = plain_field(cfg.ema_alpha, threads[i].plain,
                                                    threads[i].acc, threads[i].s[fld], Fives[fld])]
        /\ threads' = [threads EXCEPT
                ![i].pc = IF k < Len(EmaFields) THEN "ema_load"
                          ELSE IF cfg.auto_tune_enable THEN "now" ELSE "read_gamma",
                ![i].k = IF k < Len(EmaFields) THEN k + 1 ELSE 0,
                ![i].acc = 0,
                ![i].plain = TRUE,
                ![i].s = IF k < Len(EmaFields) THEN threads[i].s ELSE ZeroStats]
        /\ UNCHANGED <<cfg, frame, last_update_t, gamma, clahe_clip, clahe_off, clock, raw, tune, out, seen>>

\* line 112: now = time.time()
cbNow(i) ==
    \E now \in NowsP :
        /\ threads[i].pc = "now"
        /\ clock' = now
        /\ threads' = [threads EXCEPT ![i].pc = "gate_frame", ![i].now = now]
        /\ UNCHANGED <<cfg, frame, last_update_t, ema, ema_plain, gamma, clahe_clip, clahe_off, raw, tune, out, seen>>

\* lines 113-114: gate (a), reading self._frame
cbGateFrame(i) ==
    /\ threads[i].pc = "gate_frame"
    /\ IF frame_gate(cfg, frame)
       THEN /\ threads' = [threads EXCEPT ![i].pc = "gate_time"]
            /\ UNCHANGED tune
       ELSE /\ threads' = [threads EXCEPT ![i].pc = "read_gamma", ![i].now = 0]
            /\ tune' = NoTune
    /\ UNCHANGED <<cfg, frame, last_update_t, ema, ema_plain, gamma, clahe_clip, clahe_off, clock, raw, out, seen>>

\* lines 115-116: gate (b), reading self._last_update_t
cbGateTime(i) ==
    /\ threads[i].pc = "gate_time"
    /\ IF time_gate(cfg, last_update_t, threads[i].now)
       THEN /\ threads' = [threads EXCEPT ![i].pc = "read_ema", ![i].k = 1]
            /\ UNCHANGED tune
       ELSE /\ threads' = [threads EXCEPT ![i].pc = "read_gamma", ![i].now = 0]
            /\ tune' = NoTune
    /\ UNCHANGED <<cfg, frame, last_update_t, ema, ema_plain, gamma, clahe_clip, clahe_off, clock, raw, out, seen>>

\* lines 118-121: the locals mean, std, sat, dark, one read of self._ema each
cbReadEma(i) ==
    LET k   == threads[i].k
        fld == EmaFields[k]
    IN  /\ threads[i].pc = "read_ema"
        /\ \E v \in read_field(cfg.ema_alpha, ema_plain[fld], ema[fld], thresholds(cfg)[fld]) :
                threads' = [threads EXCEPT
                    ![i].pc = IF k < Len(EmaFields) THEN "read_ema" ELSE "load_gamma",
                    ![i].k = IF k < Len(EmaFields) THEN k + 1 ELSE 0,
                    ![i].e = [threads[i].e EXCEPT ![fld] = v]]
        /\ UNCHANGED <<cfg, frame, last_update_t, ema, ema_plain, gamma, clahe_clip, clahe_off, clock, raw, tune, out, seen>>

\* line 123: gamma = self.gamma
cbLoadGamma(i) ==
    /\ threads[i].pc = "load_gamma"
    /\ threads' = [threads EXCEPT ![i].pc = "load_clahe", ![i].g = gamma]
    /\ UNCHANGED <<cfg, frame, last_update_t, ema, ema_plain, gamma, clahe_clip, clahe_off, clock, raw, tune, out, seen>>

\* line 124: clahe = self.clahe_clip; lines 127-147, the policy on the locals
cb_proposed(i, p) ==
    /\ threads[i].pc = "load_clahe"
    /\ tune' = [ran |-> TRUE, gamma |-> p.gamma, clahe |-> p.clahe]
    /\ threads' = [threads EXCEPT ![i].pc = "test_gamma", ![i].e = ZeroStats,
                                  ![i].g = p.gamma, ![i].cl = p.clahe, ![i].off = p.off]
    /\ UNCHANGED <<cfg, frame, last_update_t, ema, ema_plain, gamma, clahe_clip, clahe_off, clock, raw, out, seen>>

cbLoadClahe(i) == cb_proposed(i, propose(cfg, threads[i].e, threads[i].g, self_clahe))

\* line 150, the left operand of "or": abs(gamma - self.gamma) > 1e-6
cbTestGamma(i) ==
    \E up \in BOOLEAN :
        /\ threads[i].pc = "test_gamma"
        /\ threads' = [threads EXCEPT
                ![i].pc = IF exceeds(Abs(threads[i].g - gamma), up)
                          THEN "store_gamma" ELSE "test_clahe"]
        /\ UNCHANGED <<cfg, frame, last_update_t, ema, ema_plain, gamma, clahe_clip, clahe_off, clock, raw, tune, out, seen>>

\* line 150, the right operand, evaluated when the left one is false:
\* abs(clahe - self.clahe_clip) > 1e-6
cbTestClahe(i) ==
    \E up \in BOOLEAN :
        /\ threads[i].pc = "test_clahe"
        /\ threads' = [threads EXCEPT
                ![i].pc = IF exceeds(Abs(threads[i].cl - clahe_clip), up)
                          THEN "store_gamma" ELSE "read_gamma",
                ![i].now = IF exceeds(Abs(threads[i].cl - clahe_clip), up)
                           THEN threads[i].now ELSE 0]
        /\ UNCHANGED <<cfg, frame, last_update_t, ema, ema_plain, gamma, clahe_clip, clahe_off, clock, raw, tune, out, seen>>

\* line 151
cbStoreGamma(i) ==
    /\ threads[i].pc = "store_gamma"
    /\ gamma' = clip(threads[i].g, cfg.gamma_min, cfg.gamma_max)
    /\ threads' = [threads EXCEPT ![i].pc = "store_clahe"]
    /\ UNCHANGED <<cfg, frame, last_update_t, ema, ema_plain, clahe_clip, clahe_off, clock, raw, tune, out, seen>>

\* line 152
cbStoreClahe(i) ==
    /\ threads[i].pc = "store_clahe"
    /\ clahe_clip' = clip(threads[i].cl, cfg.clahe_min, cfg.clahe_max)
    /\ clahe_off' = np_clip(double(threads[i].cl, threads[i].off),
                            float(cfg.clahe_min), float(cfg.clahe_max)).k
    /\ seen' = IF clahe_clip' # clahe_clip THEN seen \cup {clahe_clip} ELSE seen
    /\ threads' = [threads EXCEPT ![i].pc = "store_time", ![i].off = 0]
    /\ UNCHANGED <<cfg, frame, last_update_t, ema, ema_plain, gamma, clock, raw, tune, out>>

\* line 153
cbStoreTime(i) ==
    /\ threads[i].pc = "store_time"
    /\ last_update_t' = threads[i].now
    /\ threads' = [threads EXCEPT ![i].pc = "read_gamma", ![i].now = 0]
    /\ UNCHANGED <<cfg, frame, ema, ema_plain, gamma, clahe_clip, clahe_off, clock, raw, tune, out, seen>>

\* line 195: _apply_gamma(bgr, self.gamma)
cbReadGamma(i) ==
    /\ threads[i].pc = "read_gamma"
    /\ threads' = [threads EXCEPT ![i].pc = "read_clahe", ![i].g = gamma]
    /\ UNCHANGED <<cfg, frame, last_update_t, ema, ema_plain, gamma, clahe_clip, clahe_off, clock, raw, tune, out, seen>>

\* line 196: _apply_clahe_on_l(out, self.clahe_clip, self.clahe_grid)
cbReadClahe(i) ==
    /\ threads[i].pc = "read_clahe"
    /\ threads' = [threads EXCEPT ![i].pc = "publish", ![i].cl = clahe_clip]
    /\ UNCHANGED <<cfg, frame, last_update_t, ema, ema_plain, gamma, clahe_clip, clahe_off, clock, raw, tune, out, seen>>

\* lines 198-200: the transformed frame is converted and published
cbPublish(i) ==
    /\ threads[i].pc = "publish"
    /\ out' = publish(threads[i].g, threads[i].cl)
    /\ threads' = [threads EXCEPT ![i] = Return(i)]
    /\ UNCHANGED <<cfg, frame, last_update_t, ema, ema_plain, gamma, clahe_clip, clahe_off, clock, raw, tune, seen>>

Enter == \E i \in Threads : cbEnter(i)
Count == \E i \in Threads : cbCount(i)
EmaLoad == \E i \in Threads : cbEmaLoad(i)
EmaStore == \E i \in Threads : cbEmaStore(i)
Now == \E i \in Threads : cbNow(i)
GateFrame == \E i \in Threads : cbGateFrame(i)
GateTime == \E i \in Threads : cbGateTime(i)
ReadEma == \E i \in Threads : cbReadEma(i)
LoadGamma == \E i \in Threads : cbLoadGamma(i)
LoadClahe == \E i \in Threads : cbLoadClahe(i)
TestGamma == \E i \in Threads : cbTestGamma(i)
TestClahe == \E i \in Threads : cbTestClahe(i)
StoreGamma == \E i \in Threads : cbStoreGamma(i)
StoreClahe == \E i \in Threads : cbStoreClahe(i)
StoreTime == \E i \in Threads : cbStoreTime(i)
ReadGamma == \E i \in Threads : cbReadGamma(i)
ReadClahe == \E i \in Threads : cbReadClahe(i)
Publish == \E i \in Threads : cbPublish(i)

NextT ==
    \/ Enter \/ Count \/ EmaLoad \/ EmaStore \/ Now \/ GateFrame \/ GateTime
    \/ ReadEma \/ LoadGamma \/ LoadClahe \/ TestGamma \/ TestClahe
    \/ StoreGamma \/ StoreClahe \/ StoreTime \/ ReadGamma \/ ReadClahe \/ Publish

SpecT == InitT /\ [][NextT]_vars

----------------------------------------------------------------------------
(* Properties *)

\* the step from this state to the next is a cb whose _auto_tune passes both gates
Tick ==
    /\ cfg.auto_tune_enable
    /\ out'.emitted
    /\ (frame' % cfg.update_every_n) = 0
    /\ clock' - last_update_t >= cfg.min_update_interval

\* the locals gamma / clahe at "Apply" differ from the stored values by more than 1e-6
Changing ==
    \/ tune'.gamma - gamma > Eps \/ gamma - tune'.gamma > Eps
    \/ tune'.clahe - clahe_clip > Eps \/ clahe_clip - tune'.clahe > Eps

\* a parameter read as cl lies within the dead-band of lines 144 and 146
InBand(cl) == in_band(float(cl))

\* C1: in every reachable state gamma is within [gamma_min, gamma_max] and
\* clahe_clip is within [clahe_min, clahe_max], the state right after
\* construction included.
C1_BoundsInvariant ==
    /\ cfg.gamma_min <= gamma /\ gamma <= cfg.gamma_max
    /\ cfg.clahe_min <= clahe_clip /\ clahe_clip <= cfg.clahe_max

\* C2: gamma and clahe_clip change only on a frame whose counter is a multiple
\* of update_every_n; with update_every_n = 8 nothing changes on frames 1..7.
C2_FrameCountGate ==
    [][(gamma' # gamma \/ clahe_clip' # clahe_clip) =>
            /\ (frame' % cfg.update_every_n) = 0
            /\ cfg.update_every_n = 8 => frame' >= 8]_vars

\* C2 witness: with update_every_n = 8 the parameters have changed on frame 8.
C2_Witness ==
    /\ cfg.update_every_n = 8
    /\ frame = 8
    /\ gamma # cfg.gamma

\* C3: whatever a frame changes among gamma, clahe_clip and last_update_t, it
\* changes at a time at least min_update_interval after the previous commit,
\* and the commit is stamped with that time; a frame arriving sooner leaves
\* all three unchanged.
C3_WallClockGate ==
    [][(gamma' # gamma \/ clahe_clip' # clahe_clip \/ last_update_t' # last_update_t) =>
            /\ clock' - last_update_t >= cfg.min_update_interval
            /\ last_update_t' = clock']_vars

\* C3 witness: after a commit the frame-count gate has reopened on a frame that
\* arrived less than min_update_interval after it, and the frame asked for a change.
C3_Witness ==
    /\ cfg.auto_tune_enable
    /\ out.emitted
    /\ last_update_t >= StartTime
    /\ frame > cfg.update_every_n
    /\ (frame % cfg.update_every_n) = 0
    /\ clock - last_update_t < cfg.min_update_interval
    /\ ema.sat_ratio > cfg.sat_ratio_thr
    /\ gamma > cfg.gamma_min

\* C4: on a tick whose smoothed sat_ratio exceeds sat_ratio_thr the proposed
\* values are exactly max(gamma_min, gamma - gamma_step_saturated) and
\* max(clahe_min, clahe - clahe_step), whatever mean, dark_ratio and std are.
C4_SaturationPriority ==
    [][(Tick /\ ema'.sat_ratio > cfg.sat_ratio_thr) =>
            /\ tune'.ran
            /\ tune'.gamma = Max(cfg.gamma_min, gamma - cfg.gamma_step_saturated)
            /\ tune'.clahe = Max(cfg.clahe_min, clahe_clip - cfg.clahe_step)]_vars

\* C4 witness: a committed tick that was saturated, dark (by mean and by
\* dark_ratio) and flat at once.
C4_Witness ==
    /\ tune.ran
    /\ ema.sat_ratio > cfg.sat_ratio_thr
    /\ ema.mean < cfg.dark_mean_thr
    /\ ema.dark_ratio > cfg.dark_ratio_thr
    /\ ema.std < cfg.low_contrast_std_thr
    /\ last_update_t = clock
    /\ gamma = tune.gamma
    /\ gamma < cfg.gamma

\* C5: last_update_t is reset exactly by the ticks whose proposal differs from
\* the stored values by more than 1e-6; a tick whose proposal is within 1e-6
\* in both components leaves gamma, clahe_clip and last_update_t unchanged.
C5_TimerResetOnlyOnCommit ==
    [][/\ (Tick /\ ~Changing) => UNCHANGED <<gamma, clahe_clip, last_update_t>>
       /\ (Tick /\ Changing) => last_update_t' = clock'
       /\ last_update_t' # last_update_t => (Tick /\ Changing)]_vars

\* C5 witness: a tick past both gates whose step was absorbed by the clamp at
\* clahe_max, with the timer still at the earlier commit.
C5_Witness ==
    /\ tune.ran
    /\ ema.std < cfg.low_contrast_std_thr
    /\ ema.sat_ratio <= cfg.sat_ratio_thr
    /\ clahe_clip = cfg.clahe_max
    /\ tune.clahe = clahe_clip
    /\ tune.gamma = gamma
    /\ StartTime <= last_update_t
    /\ last_update_t < clock

\* the no-op region of the brightness and the contrast rule
NoOpRegion(e) ==
    /\ e.sat_ratio <= cfg.sat_ratio_thr
    /\ cfg.dark_mean_thr <= e.mean /\ e.mean <= cfg.bright_mean_thr
    /\ e.dark_ratio <= cfg.dark_ratio_thr
    /\ e.std >= cfg.low_contrast_std_thr

\* C6: a frame whose smoothed statistics are in the no-op region of both rules,
\* with clahe_clip inside the dead-band, leaves gamma and clahe_clip unchanged.
C6_EquilibriumIdempotence ==
    [][(NoOpRegion(ema') /\ in_band(self_clahe)) =>
            UNCHANGED <<gamma, clahe_clip, last_update_t>>]_vars

\* C6 witness: a tick past both gates in the no-op region, after the controller
\* had moved gamma away from its initial value.
C6_Witness ==
    /\ tune.ran
    /\ NoOpRegion(ema)
    /\ in_band(self_clahe)
    /\ gamma # cfg.gamma
    /\ tune.gamma = gamma
    /\ tune.clahe = clahe_clip

C8_ScenarioADefaults ==
    [][(/\ out'.emitted
        /\ (frame' % cfg.update_every_n) = 0
        /\ clock' - last_update_t >= cfg.min_update_interval) =>
            gamma' = Min(cfg.gamma_max, gamma + cfg.gamma_step)]_vars

\* C8 amended: in Scenario A gamma moves by exactly gamma_step, up to
\* gamma_max, on every tick past both gates of a controller whose
\* auto_tune_enable is true, and on no other frame (on no frame at all under
\* the defaults, where auto_tune_enable is false); clahe_clip keeps its
\* initial value on every frame.
C8_ScenarioA ==
    /\ [](clahe_clip = Tuned.clahe_clip)
    /\ [][gamma' = IF Tick THEN Min(cfg.gamma_max, gamma + cfg.gamma_step)
                   ELSE gamma]_vars

\* C8 witness: with auto_tune_enable true, after the 100 frames gamma sits at
\* gamma_max, the last tick having been absorbed there.
C8_Witness ==
    /\ cfg.auto_tune_enable
    /\ frame = FramesA
    /\ gamma = cfg.gamma_max
    /\ clahe_clip = cfg.clahe_clip
    /\ last_update_t < StartTime + HorizonA - 2 * cfg.min_update_interval

\* C9: in Scenario B every tick past both gates lowers gamma by
\* gamma_step_saturated, not below gamma_min, and clahe_clip by clahe_step,
\* not below clahe_min; no other frame changes them.
C9_ScenarioB ==
    /\ [](gamma >= cfg.gamma_min /\ clahe_clip >= cfg.clahe_min)
    /\ [][IF Tick
          THEN /\ gamma' = Max(cfg.gamma_min, gamma - cfg.gamma_step_saturated)
               /\ clahe_clip' = Max(cfg.clahe_min, clahe_clip - cfg.clahe_step)
          ELSE UNCHANGED <<gamma, clahe_clip>>]_vars

\* C9 witness: both parameters at their minimum, and a later tick past both
\* gates that kept them there.
C9_Witness ==
    /\ gamma = cfg.gamma_min
    /\ clahe_clip = cfg.clahe_min
    /\ tune.ran
    /\ last_update_t < clock

\* C10: a frame that is rejected publishes nothing and leaves the smoothed
\* statistics, gamma, clahe_clip and last_update_t as they were; a frame that
\* is accepted afterwards is smoothed and published.
C10_InvalidInputSkipped ==
    [][/\ ~out'.emitted => UNCHANGED <<ema, gamma, clahe_clip, last_update_t>>
       /\ out'.emitted => /\ ema' = ema_update(cfg, ema, raw')
                          /\ out'.gamma = gamma' /\ out'.clahe = clahe_clip']_vars

\* C10 witness: a rejected frame arrived after the controller had smoothed
\* frames and committed a change.
C10_Witness ==
    /\ ~out.emitted
    /\ frame > 0
    /\ ema # ZeroStats
    /\ gamma # cfg.gamma
    /\ last_update_t >= StartTime

\* C11: the frame counter advances by one on every accepted frame and is not
\* advanced by a frame that is rejected, so that it counts the accepted frames.
C11_CounterCountsAccepted ==
    [][/\ out'.emitted => frame' = frame + 1
       /\ ~out'.emitted => frame' = frame]_vars

\* the locals gamma and clahe recorded in t are those of the proposal p
SameLocals(t, p) == t.gamma = p.gamma /\ t.clahe = p.clahe

\* C13: on every accepted frame the smoothed statistics take the frame in
\* exactly once; the gates and the policy of that frame read the statistics
\* that already include it; the frame is transformed with the parameters as
\* they are after its tune step.
C13_PerFrameOrdering ==
    [][out'.emitted =>
            /\ raw' \in Samples
            /\ ema' = ema_update(cfg, ema, raw')
            /\ tune'.ran = Tick
            /\ Tick => \E o \in readings(cfg, ema_plain', ema') :
                           SameLocals(tune', propose(cfg, o, gamma, self_clahe))
            /\ out'.gamma = gamma'
            /\ out'.clahe = clahe_clip']_vars

\* C13 witness: the very first frame is a tick; it is saturated, while the
\* statistics smoothed before it (all zero) read as a dark scene; gamma went
\* down and the frame was transformed with the lowered gamma.
C13_Witness ==
    /\ frame = 1
    /\ tune.ran
    /\ ema.sat_ratio > cfg.sat_ratio_thr
    /\ cfg.gamma_min < gamma
    /\ gamma < cfg.gamma
    /\ out.emitted
    /\ out.gamma = gamma

\* C17: no frame moves gamma by more than max(gamma_step, gamma_step_saturated)
\* or clahe_clip by more than clahe_step.
C17_IncrementalCorrection ==
    [][/\ Abs(gamma' - gamma) <= Max(cfg.gamma_step, cfg.gamma_step_saturated)
       /\ Abs(clahe_clip' - clahe_clip) <= cfg.clahe_step]_vars

\* C20: with auto_tune_enable false gamma, clahe_clip and last_update_t keep
\* their construction-time values and every published frame is transformed
\* with them, while every accepted frame advances the counter and is
\* smoothed in.
C20_AutoTuneDisabled ==
    /\ [](~cfg.auto_tune_enable =>
            /\ gamma = cfg.gamma
            /\ clahe_clip = cfg.clahe_clip
            /\ last_update_t = 0
            /\ ~tune.ran
            /\ out.emitted => (out.gamma = cfg.gamma /\ out.clahe = cfg.clahe_clip))
    /\ [][(~cfg.auto_tune_enable /\ out'.emitted) =>
            /\ frame' = frame + 1
            /\ ema' = ema_update(cfg, ema, raw')]_vars

\* C20 witness: auto-tuning is off, the frame-count gate would be open, the
\* clock is past the interval and the smoothed statistics are saturated, yet
\* the frame was published with the base parameters.
C20_Witness ==
    /\ ~cfg.auto_tune_enable
    /\ frame > 0
    /\ (frame % cfg.update_every_n) = 0
    /\ clock - last_update_t >= cfg.min_update_interval
    /\ ema.sat_ratio > cfg.sat_ratio_thr
    /\ out.emitted
    /\ out.gamma = cfg.gamma

\* a configuration that respects the physical constraints
ValidConfig(c) ==
    /\ c.gamma_min <= c.gamma_max
    /\ c.clahe_min <= c.clahe_max
    /\ 0 < c.ema_alpha /\ c.ema_alpha <= 100
    /\ c.gamma_step >= 0 /\ c.gamma_step_saturated >= 0 /\ c.clahe_step >= 0
    /\ c.update_every_n >= 1

\* C12: no frame is ever processed (smoothed, tuned, transformed and
\* published) under a configuration that violates a physical constraint.
C12_InvalidConfigRejected == out.emitted => ValidConfig(cfg)

\* C15: on a tick that is not saturated the proposed gamma is gamma+gamma_step
\* (at most gamma_max) if the scene is dark by mean or by dark_ratio, also when
\* it is bright by mean; else gamma-gamma_step (at least gamma_min) if it is
\* bright; else gamma.  The proposed clahe is clahe+clahe_step (at most
\* clahe_max) if std is low; else clahe-0.5*clahe_step (at least clahe_min)
\* above target+0.2; else clahe+0.3*clahe_step (at most clahe_max) below
\* target-0.2; else clahe.
C15_NonSaturatedPolicy ==
    [][(Tick /\ ema'.sat_ratio <= cfg.sat_ratio_thr) =>
          LET dark   == ema'.mean < cfg.dark_mean_thr \/ ema'.dark_ratio > cfg.dark_ratio_thr
              bright == ema'.mean > cfg.bright_mean_thr
              flat   == ema'.std < cfg.low_contrast_std_thr
              half   == (cfg.clahe_step * 5) \div 10
              third  == (cfg.clahe_step * 3) \div 10
          IN  /\ tune'.ran
              /\ dark => tune'.gamma = Min(cfg.gamma_max, gamma + cfg.gamma_step)
              /\ (~dark /\ bright) => tune'.gamma = Max(cfg.gamma_min, gamma - cfg.gamma_step)
              /\ (~dark /\ ~bright) => tune'.gamma = gamma
              /\ flat => tune'.clahe = Min(cfg.clahe_max, clahe_clip + cfg.clahe_step)
              /\ (~flat /\ above_band(self_clahe)) =>
                      tune'.clahe = Max(cfg.clahe_min, clahe_clip - half)
              /\ (~flat /\ below_band(self_clahe)) =>
                      tune'.clahe = Min(cfg.clahe_max, clahe_clip + third)
              /\ (~flat /\ in_band(self_clahe)) => tune'.clahe = clahe_clip]_vars

\* C15 witness: a tick on a scene that is bright by mean and dark by
\* dark_ratio raised gamma, and relaxed clahe_clip downwards on the same tick.
C15_Witness ==
    /\ frame = 1
    /\ tune.ran
    /\ ema.sat_ratio <= cfg.sat_ratio_thr
    /\ ema.mean > cfg.bright_mean_thr
    /\ ema.dark_ratio > cfg.dark_ratio_thr
    /\ ema.std >= cfg.low_contrast_std_thr
    /\ gamma = tune.gamma /\ gamma > cfg.gamma
    /\ clahe_clip = tune.clahe /\ clahe_clip < cfg.clahe_clip

\* C16: under bounds with min <= max, a tick that commits stores gamma and
\* clahe_clip each within its bounds (the proposal itself where it lies within
\* them) and resets the timer, whatever the stored values and the steps were.
C16_CommitStoresClamped ==
    [][(/\ cfg.gamma_min <= cfg.gamma_max
        /\ cfg.clahe_min <= cfg.clahe_max
        /\ Tick /\ Changing) =>
            /\ cfg.gamma_min <= gamma' /\ gamma' <= cfg.gamma_max
            /\ cfg.clahe_min <= clahe_clip' /\ clahe_clip' <= cfg.clahe_max
            /\ (cfg.gamma_min <= tune'.gamma /\ tune'.gamma <= cfg.gamma_max)
                    => gamma' = tune'.gamma
            /\ (cfg.clahe_min <= tune'.clahe /\ tune'.clahe <= cfg.clahe_max)
                    => clahe_clip' = tune'.clahe
            /\ last_update_t' = clock']_vars

\* C16 witness: a commit in which only clahe changed; gamma, proposed
\* unchanged at its starting value above gamma_max, was stored clamped.
C16_Witness ==
    /\ frame = 1
    /\ tune.ran
    /\ cfg.gamma_min <= cfg.gamma_max
    /\ tune.gamma = cfg.gamma
    /\ cfg.gamma > cfg.gamma_max
    /\ gamma = cfg.gamma_max
    /\ clahe_clip # cfg.clahe_clip
    /\ last_update_t = clock

\* C19: when every frame from the first one has the same raw statistics, in
\* the no-op region of every rule, and the initial clahe_clip is inside the
\* dead-band, gamma and clahe_clip keep their initial values.
C19_NoStartupCorrection ==
    (frame > 0 /\ NoOpRegion(raw) /\ InBand(cfg.clahe_clip)) =>
        (gamma = cfg.gamma /\ clahe_clip = cfg.clahe_clip)

\* C18: under constant statistics that are neither saturated nor flat,
\* clahe_clip changes on finitely many ticks, for every configuration with
\* clahe_min <= clahe_max and clahe_step > 0: it never comes back to a value
\* it has left (a deterministic run that comes back repeats for ever).
C18_NoChatter ==
    [][clahe_clip' # clahe_clip => clahe_clip' \notin seen]_vars

\* C14: with two callbacks in flight no frame-counter increment is lost (once
\* both threads are out of cb the counter equals the callbacks finished), and
\* every frame is transformed with a gamma and a clahe_clip of the same commit
\* (under the saturated scene: the initial pair lowered the same number of
\* times).
C14_SingleWriter ==
    /\ (\A i \in Threads : threads[i].pc = "idle")
            => frame = threads[1].done + threads[2].done
    /\ out.emitted =>
            \E k \in 0 .. MaxCalls :
                /\ out.gamma = cfg.gamma - k * cfg.gamma_step_saturated
                /\ out.clahe = cfg.clahe_clip - k * cfg.clahe_step

====
